---- MODULE Spec2Model ----
(***************************************************************************)
(* State-machine model of ec2_monitor.py: one-time provisioning (topic,     *)
(* subscription, alarms), the scheduler loop of main, the per-minute        *)
(* metrics collection job, the weekly summary job and the stakeholder       *)
(* notifier.  The AWS providers and the file system are the environment:    *)
(* every provider call and every file operation may succeed or raise.       *)
(***************************************************************************)
EXTENDS Integers, Sequences, FiniteSets, TLC

(* ------------------------------ bounds -------------------------------- *)

\* Last clock value at which the loop of main still sleeps.
MaxTime == 5

\* Number of times the operator starts the script again after it ended.
MaxRestarts == 1

\* Clock units between two runs of the per-minute job (scaled from 60 s).
MinuteInterval == 2

\* Clock units between two Sundays 00:00 (scaled from 7 days).
WeekInterval == 3

\* Longest metrics file drawn as input of the weekly summary in SpecDigest.
MaxLogLen == 3

(* --------------------------- configuration ---------------------------- *)

\* config['instances'] and config['stats'] of a representative deployment.
instances == <<"i-1", "i-2">>

stats == <<"CPUUtilization", "NetworkIn">>

\* config['thresholds'][stat] = {'amber': .., 'red': ..}
thresholds ==
    [s \in {"CPUUtilization", "NetworkIn"} |->
        IF s = "CPUUtilization" THEN [amber |-> 70, red |-> 90]
                                ELSE [amber |-> 1000, red |-> 5000]]

\* The two files a deployment may name in config['metrics'] / config['data_file'].
Paths == {"metrics.json", "data.json"}

\* config['metrics'] is fixed; config['data_file'] is a separate key of the
\* configuration document and may or may not name the same file.
Configs == {[metrics |-> "metrics.json", data_file |-> p] : p \in Paths}

\* The ARN sns.create_topic returns.
TopicArn == "arn:" \o "ec2-monitoring"

\* Python's None for topic_arn before create_sns_topic returned.
NoTopic == "None"

\* A stat value is optional: None is <<>>, the number v is <<v>>.
None == <<>>

Some(v) == <<v>>

\* Period / EvaluationPeriods / ComparisonOperator of put_metric_alarm.
AlarmPeriod == 60

AlarmEvaluationPeriods == 1

AlarmComparison == "GreaterThanThreshold"

VARIABLES
    config,            \* the loaded configuration (module-level global)
    files,             \* file system: path -> [exists, lines]
    now,               \* wall clock
    pc,                \* position of the single thread
    topic_arn,         \* main's local topic_arn
    topics,            \* SNS: names of the topics created
    subscriptions,     \* SNS: <<topic, protocol, endpoint>> subscriptions
    alarms,            \* CloudWatch: the alarms registered (one per name)
    setupCalls,        \* provider calls that succeeded in this run of main
    jobs,              \* schedule: job name -> next_run
    instance_idx,      \* loop position over config['instances']
    stat_idx,          \* loop position over config['stats']
    tier,              \* which of the two put_metric_alarm calls is next
    metrics_data,      \* record_metrics: the record being built
    instance_metrics,  \* record_metrics: the entry being built
    response,          \* record_metrics: outcome of get_metric_statistics
    tick_log,          \* record_metrics: the outcomes logged in this call
    data,              \* send_weekly_summary: lines read from the file
    weekly_summary,    \* send_weekly_summary: stat -> high/low/average
    summary_message,   \* send_weekly_summary: the formatted message
    error_message,     \* notify_stakeholders: its argument
    notifyRet,         \* where the caller continues after notify_stakeholders
    completedTicks,    \* number of record_metrics calls that returned
    restarts           \* number of times the script was started again

vars ==
    <<config, files, now, pc, topic_arn, topics, subscriptions, alarms,
      setupCalls, jobs, instance_idx, stat_idx, tier, metrics_data,
      instance_metrics, response, tick_log, data, weekly_summary,
      summary_message, error_message, notifyRet, completedTicks, restarts>>

(* ----------------------------- helpers -------------------------------- *)

Range(f) == {f[x] : x \in DOMAIN f}

\* d[k] = v on a Python dict.
DictSet(d, k, v) == [x \in (DOMAIN d) \cup {k} |-> IF x = k THEN v ELSE d[x]]

NoFile == [exists |-> FALSE, lines |-> <<>>]

EmptyFile == [exists |-> TRUE, lines |-> <<>>]

NoResponse == [kind |-> "none"]

NoMessage == [kind |-> "none"]

NoRecord == [timestamp |-> 0, metrics |-> <<>>]

NoEntry == [instance_id |-> "", stats |-> <<>>]

\* The locals of the job functions, as they are outside any call.
LocalsIdle ==
    /\ instance_idx' = 1
    /\ stat_idx' = 1
    /\ tier' = "Amber"
    /\ metrics_data' = NoRecord
    /\ instance_metrics' = NoEntry
    /\ response' = NoResponse
    /\ tick_log' = <<>>
    /\ data' = <<>>
    /\ weekly_summary' = <<>>
    /\ summary_message' = <<>>

LocalsUnchanged ==
    UNCHANGED <<instance_idx, stat_idx, tier, metrics_data, instance_metrics,
                response, tick_log, data, weekly_summary, summary_message>>

\* Calling notify_stakeholders(msg); the caller goes on at ret when it returns.
CallNotify(msg, ret) ==
    /\ error_message' = msg
    /\ notifyRet' = ret
    /\ pc' = "notify_stakeholders"

(* ------------------------------- Init --------------------------------- *)

\* The script is started on a fresh machine: the metrics file does not exist
\* yet; a data file other than the metrics file is absent or present and
\* empty; nothing has been provisioned.
Init ==
    /\ config \in Configs
    /\ files \in [Paths -> {NoFile, EmptyFile}]
    /\ files[config.metrics] = NoFile
    /\ \A p \in Paths \ {config.data_file} : files[p] = NoFile
    /\ now = 0
    /\ pc = "create_sns_topic"
    /\ topic_arn = NoTopic
    /\ topics = {}
    /\ subscriptions = {}
    /\ alarms = {}
    /\ setupCalls = <<>>
    /\ jobs = <<>>
    /\ instance_idx = 1
    /\ stat_idx = 1
    /\ tier = "Amber"
    /\ metrics_data = NoRecord
    /\ instance_metrics = NoEntry
    /\ response = NoResponse
    /\ tick_log = <<>>
    /\ data = <<>>
    /\ weekly_summary = <<>>
    /\ summary_message = <<>>
    /\ error_message = NoMessage
    /\ notifyRet = "none"
    /\ completedTicks = 0
    /\ restarts = 0

(* ------------------------- notify_stakeholders ------------------------ *)

\* Mutant: the ClientError of sns.publish escapes notify_stakeholders.
NotifyNextPropagates(published, ret) == IF published THEN ret ELSE "crashed"

\* Where control goes when notify_stakeholders is over: sns.publish either
\* succeeded or raised ClientError, which the function logs and swallows.
NotifyNext(published, ret) == ret

\* notify_stakeholders(error_message): one sns.publish to the error topic.
NotifyStakeholders ==
    /\ pc = "notify_stakeholders"
    /\ \E published \in BOOLEAN : pc' = NotifyNext(published, notifyRet)
    /\ error_message' = NoMessage
    /\ notifyRet' = "none"
    /\ IF pc' \in {"crashed", "returned"} THEN LocalsIdle ELSE LocalsUnchanged
    /\ UNCHANGED <<config, files, now, topic_arn, topics, subscriptions, alarms,
                   setupCalls, jobs, completedTicks, restarts>>

(* ---------------------------- provisioning ---------------------------- *)

\* create_sns_topic(): sns.create_topic, or log + notify + raise.
CreateSnsTopic ==
    /\ pc = "create_sns_topic"
    /\ \E ok \in BOOLEAN :
        IF ok
          THEN /\ topics' = topics \cup {"ec2-monitoring"}
               /\ topic_arn' = TopicArn
               /\ setupCalls' = Append(setupCalls, <<"create_topic">>)
               /\ pc' = "subscribe_email"
               /\ UNCHANGED <<error_message, notifyRet>>
          ELSE /\ CallNotify([kind |-> "create_topic_error"], "setup_except")
               /\ UNCHANGED <<topics, topic_arn, setupCalls>>
    /\ LocalsUnchanged
    /\ UNCHANGED <<config, files, now, subscriptions, alarms, jobs, completedTicks, restarts>>

\* subscribe_email(topic_arn, email): sns.subscribe, or log + notify + raise.
SubscribeEmail ==
    /\ pc = "subscribe_email"
    /\ \E ok \in BOOLEAN :
        IF ok
          THEN /\ subscriptions' = subscriptions \cup {<<topic_arn, "email">>}
               /\ setupCalls' = Append(setupCalls, <<"subscribe">>)
               /\ pc' = "create_alarms"
               /\ UNCHANGED <<error_message, notifyRet>>
          ELSE /\ CallNotify([kind |-> "subscribe_error"], "setup_except")
               /\ UNCHANGED <<subscriptions, setupCalls>>
    /\ LocalsUnchanged
    /\ UNCHANGED <<config, files, now, topic_arn, topics, alarms, jobs, completedTicks, restarts>>

\* Mutant: the alarm name leaves the stat out.
AlarmNameWithoutStat(instance_id, stat, t) == instance_id \o "_" \o t \o "_Alarm"

\* AlarmName=f'{instance_id}_{stat}_Amber_Alarm' / f'{instance_id}_{stat}_Red_Alarm'
AlarmName(instance_id, stat, t) == instance_id \o "_" \o stat \o "_" \o t \o "_Alarm"

\* The keyword arguments of one put_metric_alarm call.
AlarmSpec(instance_id, stat, t, arn) ==
    [AlarmName |-> AlarmName(instance_id, stat, t),
     MetricName |-> stat,
     Namespace |-> "AWS/EC2",
     Statistic |-> "Average",
     Period |-> AlarmPeriod,
     EvaluationPeriods |-> AlarmEvaluationPeriods,
     Threshold |-> IF t = "Amber" THEN thresholds[stat].amber ELSE thresholds[stat].red,
     ComparisonOperator |-> AlarmComparison,
     AlarmActions |-> <<arn>>,
     InstanceId |-> instance_id]

\* CloudWatch keeps one alarm per name: a put of an existing name replaces it.
PutAlarm(store, a) == {b \in store : b.AlarmName # a.AlarmName} \cup {a}

\* One cloudwatch.put_metric_alarm call of create_alarms: the Amber call and
\* then the Red call of each (instance, stat); ClientError -> log + notify + raise.
PutMetricAlarm ==
    /\ pc = "create_alarms"
    /\ LET instance_id == instances[instance_idx]
           stat == stats[stat_idx]
           lastStat == stat_idx = Len(stats)
           lastInstance == instance_idx = Len(instances)
       IN \E ok \in BOOLEAN :
            IF ok
              THEN /\ alarms' = PutAlarm(alarms, AlarmSpec(instance_id, stat, tier, topic_arn))
                   /\ setupCalls' = Append(setupCalls,
                                           <<"put_metric_alarm", instance_id, stat, tier>>)
                   /\ tier' = IF tier = "Amber" THEN "Red" ELSE "Amber"
                   /\ stat_idx' = IF tier = "Amber" THEN stat_idx
                                  ELSE IF lastStat THEN 1 ELSE stat_idx + 1
                   /\ instance_idx' = IF tier = "Red" /\ lastStat /\ ~lastInstance
                                        THEN instance_idx + 1
                                        ELSE IF tier = "Red" /\ lastStat THEN 1
                                        ELSE instance_idx
                   /\ pc' = IF tier = "Red" /\ lastStat /\ lastInstance
                              THEN "schedule" ELSE "create_alarms"
                   /\ UNCHANGED <<error_message, notifyRet>>
              ELSE /\ CallNotify([kind |-> "create_alarm_error",
                                  stat |-> stat, instance_id |-> instance_id],
                                 "setup_except")
                   /\ UNCHANGED <<alarms, setupCalls, tier, stat_idx, instance_idx>>
    /\ UNCHANGED <<metrics_data, instance_metrics, response, tick_log, data, weekly_summary,
                   summary_message>>
    /\ UNCHANGED <<config, files, now, topic_arn, topics, subscriptions, jobs, completedTicks, restarts>>

\* Mutant: main's except block lacks the return and falls through.
SetupExceptFallsThrough == "schedule"

\* Where main goes after its except block notified: it returns.
SetupExceptNext == "returned"

\* main's `except Exception`: log, notify "Setup failed", print, return.
SetupExcept ==
    /\ pc = "setup_except"
    /\ CallNotify([kind |-> "setup_failed"], SetupExceptNext)
    /\ LocalsIdle
    /\ UNCHANGED <<config, files, now, topic_arn, topics, subscriptions, alarms,
                   setupCalls, jobs, completedTicks, restarts>>

\* schedule.every(1).minute.do(record_metrics) and
\* schedule.every().sunday.at("00:00").do(send_weekly_summary, ...): the next
\* Sunday is between 1 and WeekInterval clock units away.
Schedule ==
    /\ pc = "schedule"
    /\ \E d \in 1..WeekInterval :
        jobs' = [j \in {"record_metrics", "send_weekly_summary"} |->
                    IF j = "record_metrics" THEN now + MinuteInterval ELSE now + d]
    /\ pc' = "run_pending"
    /\ LocalsUnchanged
    /\ UNCHANGED <<config, files, now, topic_arn, topics, subscriptions, alarms,
                   setupCalls, error_message, notifyRet, completedTicks, restarts>>

(* --------------------------- scheduler loop --------------------------- *)

\* job.should_run: the job is registered and its next_run has come.
Due(j) == j \in DOMAIN jobs /\ jobs[j] <= now

\* run_pending runs the due jobs in the order of their next_run; of two jobs
\* due at the same instant the one registered first (record_metrics) runs first.
RecordMetricsIsNext ==
    /\ Due("record_metrics")
    /\ Due("send_weekly_summary") => jobs["record_metrics"] <= jobs["send_weekly_summary"]

WeeklySummaryIsNext == Due("send_weekly_summary") /\ ~RecordMetricsIsNext

\* job.run() after job_func returned: next_run = now + interval.
Reschedule(j, interval) == [jobs EXCEPT ![j] = now + interval]

\* One iteration of `while True` in which no job is due: time.sleep(1).
Sleep ==
    /\ pc = "run_pending"
    /\ ~Due("record_metrics")
    /\ ~Due("send_weekly_summary")
    /\ now < MaxTime
    /\ now' = now + 1
    /\ LocalsUnchanged
    /\ UNCHANGED <<config, files, pc, topic_arn, topics, subscriptions, alarms,
                   setupCalls, jobs, error_message, notifyRet, completedTicks, restarts>>

(* --------------------------- record_metrics --------------------------- *)

IndexOf(seq, x) == CHOOSE k \in DOMAIN seq : seq[k] = x

\* The averages CloudWatch may hold for (instance, stat) in the window ending
\* at t: one reading per pair and instant, different for different pairs.
DatapointAverages(instance_id, stat, t) ==
    {10 * ((IndexOf(instances, instance_id) - 1) * Len(stats) + IndexOf(stats, stat)) + t}

\* The outcomes of cloudwatch.get_metric_statistics: ClientError, a response
\* with no data point, or a response whose first data point has the average.
Responses(instance_id, stat, t) ==
    {[kind |-> "ClientError"], [kind |-> "ok", Datapoints |-> <<>>]}
        \cup {[kind |-> "ok", Datapoints |-> <<v>>] : v \in DatapointAverages(instance_id, stat, t)}

\* run_pending calls record_metrics: end_time = utcnow(), the empty record,
\* and the first entry of the loop over config['instances'].
StartRecordMetrics ==
    /\ pc = "run_pending"
    /\ RecordMetricsIsNext
    /\ metrics_data' = [timestamp |-> now, metrics |-> <<>>]
    /\ instance_idx' = 1
    /\ stat_idx' = 1
    /\ instance_metrics' = [instance_id |-> instances[1], stats |-> <<>>]
    /\ pc' = "get_metric_statistics"
    /\ UNCHANGED <<tier, response, tick_log, data, weekly_summary, summary_message>>
    /\ UNCHANGED <<config, files, now, topic_arn, topics, subscriptions, alarms,
                   setupCalls, jobs, error_message, notifyRet, completedTicks, restarts>>

\* cloudwatch.get_metric_statistics for the current (instance, stat).
GetMetricStatistics ==
    /\ pc = "get_metric_statistics"
    /\ response' \in Responses(instances[instance_idx], stats[stat_idx],
                               metrics_data.timestamp)
    /\ tick_log' = DictSet(tick_log, <<instances[instance_idx], stats[stat_idx]>>, response')
    /\ pc' = "handle_response"
    /\ UNCHANGED <<instance_idx, stat_idx, tier, metrics_data, instance_metrics,
                   data, weekly_summary, summary_message>>
    /\ UNCHANGED <<config, files, now, topic_arn, topics, subscriptions, alarms,
                   setupCalls, jobs, error_message, notifyRet, completedTicks, restarts>>

\* Mutant: a response without data points leaves the key out of the dict.
RecordStatOmitsEmpty(entry, stat, resp) ==
    IF resp.kind = "ok" /\ resp.Datapoints # <<>>
      THEN [entry EXCEPT !.stats = DictSet(@, stat, Some(resp.Datapoints[1]))]
      ELSE entry

\* instance_metrics['stats'][stat] = data_points[0]['Average'], or None when
\* there is no data point, or None in the except ClientError branch.
RecordStat(entry, stat, resp) ==
    IF resp.kind = "ClientError"
      THEN [entry EXCEPT !.stats = DictSet(@, stat, None)]
      ELSE IF resp.Datapoints # <<>>
             THEN [entry EXCEPT !.stats = DictSet(@, stat, Some(resp.Datapoints[1]))]
             ELSE [entry EXCEPT !.stats = DictSet(@, stat, None)]

\* Mutant: the branch for an empty Datapoints list notifies as well.
NotifiesOnEmptyToo(resp) ==
    resp.kind = "ClientError" \/ (resp.kind = "ok" /\ resp.Datapoints = <<>>)

\* Which outcome makes record_metrics call notify_stakeholders: only the
\* except ClientError branch does; the else branch for no data points does not.
NotifiesOn(resp) == resp.kind = "ClientError"

\* Mutant: the except branch of the query re-raises after notifying.
QueryErrorRaises == "crashed"

\* Where record_metrics goes after notifying a failed query: `continue`.
QueryErrorNext == "next_stat"

\* The body of the try for the current (instance, stat) after the call.
HandleResponse ==
    /\ pc = "handle_response"
    /\ instance_metrics' = RecordStat(instance_metrics, stats[stat_idx], response)
    /\ IF NotifiesOn(response)
         THEN CallNotify([kind |-> "get_metric_statistics_error",
                          stat |-> stats[stat_idx],
                          instance_id |-> instances[instance_idx]],
                         QueryErrorNext)
         ELSE /\ pc' = "next_stat"
              /\ UNCHANGED <<error_message, notifyRet>>
    /\ response' = NoResponse
    /\ UNCHANGED <<instance_idx, stat_idx, tier, metrics_data, tick_log, data, weekly_summary,
                   summary_message>>
    /\ UNCHANGED <<config, files, now, topic_arn, topics, subscriptions, alarms,
                   setupCalls, jobs, completedTicks, restarts>>

\* The loop headers: the next stat, or metrics_data['metrics'].append and the
\* next instance, or the end of both loops.
NextStat ==
    /\ pc = "next_stat"
    /\ IF stat_idx < Len(stats)
         THEN /\ stat_idx' = stat_idx + 1
              /\ pc' = "get_metric_statistics"
              /\ UNCHANGED <<instance_idx, metrics_data, instance_metrics>>
         ELSE /\ metrics_data' = [metrics_data EXCEPT !.metrics = Append(@, instance_metrics)]
              /\ stat_idx' = 1
              /\ IF instance_idx < Len(instances)
                   THEN /\ instance_idx' = instance_idx + 1
                        /\ instance_metrics' = [instance_id |-> instances[instance_idx + 1],
                                                stats |-> <<>>]
                        /\ pc' = "get_metric_statistics"
                   ELSE /\ instance_idx' = 1
                        /\ instance_metrics' = NoEntry
                        /\ pc' = "write_metrics"
    /\ UNCHANGED <<tier, response, tick_log, data, weekly_summary, summary_message>>
    /\ UNCHANGED <<config, files, now, topic_arn, topics, subscriptions, alarms,
                   setupCalls, jobs, error_message, notifyRet, completedTicks, restarts>>

\* Mutant: the file is opened with mode 'w'.
OverwriteLine(file, line) == [exists |-> TRUE, lines |-> <<line>>]

\* open(path, 'a'); json.dump(record, f); f.write('\n')
AppendLine(file, line) == [exists |-> TRUE, lines |-> Append(file.lines, line)]

\* The try around the file write: the line is appended and record_metrics
\* returns to run_pending, or IOError -> log + notify + raise, and the
\* exception leaves run_pending and main.
WriteMetrics ==
    /\ pc = "write_metrics"
    /\ \E ok \in BOOLEAN :
        IF ok
          THEN /\ files' = [files EXCEPT ![config.metrics] = AppendLine(@, metrics_data)]
               /\ completedTicks' = completedTicks + 1
               /\ jobs' = Reschedule("record_metrics", MinuteInterval)
               /\ pc' = "run_pending"
               /\ LocalsIdle
               /\ UNCHANGED <<error_message, notifyRet>>
          ELSE /\ CallNotify([kind |-> "write_metrics_error"], "crashed")
               /\ LocalsUnchanged
               /\ UNCHANGED <<files, completedTicks, jobs>>
    /\ UNCHANGED <<config, now, topic_arn, topics, subscriptions, alarms,
                   setupCalls, restarts>>

(* ------------------------- send_weekly_summary ------------------------ *)

RECURSIVE Sum(_)
Sum(values) == IF values = <<>> THEN 0 ELSE Head(values) + Sum(Tail(values))

\* max(values) and min(values) of a non-empty list.
Max(values) == CHOOSE v \in Range(values) : \A w \in Range(values) : w <= v

Min(values) == CHOOSE v \in Range(values) : \A w \in Range(values) : v <= w

\* sum(values) / len(values): the exact quotient, kept as numerator and
\* denominator (true division, nothing is rounded to an integer).
Average(values) == [num |-> Sum(values), den |-> Len(values)]

\* Mutant: the comprehension reads the last instance entry of each record.
StatValuesOfLastEntry(lines, stat) ==
    LET kept == SelectSeq(lines,
                    LAMBDA entry : entry.metrics[Len(entry.metrics)].stats[stat] # None)
    IN [k \in 1..Len(kept) |-> kept[k].metrics[Len(kept[k].metrics)].stats[stat][1]]

\* [entry['metrics'][0]['stats'][stat] for entry in data
\*      if entry['metrics'][0]['stats'][stat] is not None]
StatValues(lines, stat) ==
    LET kept == SelectSeq(lines, LAMBDA entry : entry.metrics[1].stats[stat] # None)
    IN [k \in 1..Len(kept) |-> kept[k].metrics[1].stats[stat][1]]

\* The weekly_summary dict: a key for each stat whose value list is not empty.
WeeklySummary(lines) ==
    [stat \in {s \in Range(stats) : StatValues(lines, s) # <<>>} |->
        [high |-> Max(StatValues(lines, stat)),
         low |-> Min(StatValues(lines, stat)),
         average |-> Average(StatValues(lines, stat))]]

\* summary_message: one "{stat}: High / Low / Average" block per item of the
\* dict, in insertion order, which is the order of config['stats'].
SummaryMessage(summary) ==
    LET present == SelectSeq(stats, LAMBDA s : s \in DOMAIN summary)
    IN [k \in 1..Len(present) |->
            [stat |-> present[k],
             high |-> summary[present[k]].high,
             low |-> summary[present[k]].low,
             average |-> summary[present[k]].average]]

\* run_pending calls send_weekly_summary: open(config['data_file']) and the
\* parse of every line.  A missing file raises FileNotFoundError, which the
\* function's `except ClientError` does not catch: it leaves the function,
\* run_pending and main without any notification.
ReadDataFile ==
    /\ pc = "run_pending"
    /\ WeeklySummaryIsNext
    /\ IF files[config.data_file].exists
         THEN /\ data' = files[config.data_file].lines
              /\ pc' = "summarise"
              /\ UNCHANGED <<instance_idx, stat_idx, tier, metrics_data,
                             instance_metrics, response, tick_log, weekly_summary,
                             summary_message>>
         ELSE /\ pc' = "crashed"
              /\ LocalsIdle
    /\ UNCHANGED <<config, files, now, topic_arn, topics, subscriptions, alarms,
                   setupCalls, jobs, error_message, notifyRet, completedTicks, restarts>>

\* The loop over config['stats'] that fills weekly_summary, and the
\* formatting of summary_message.
Summarise ==
    /\ pc = "summarise"
    /\ weekly_summary' = WeeklySummary(data)
    /\ summary_message' = SummaryMessage(WeeklySummary(data))
    /\ pc' = "publish_summary"
    /\ UNCHANGED <<instance_idx, stat_idx, tier, metrics_data, instance_metrics,
                   response, tick_log, data>>
    /\ UNCHANGED <<config, files, now, topic_arn, topics, subscriptions, alarms,
                   setupCalls, jobs, error_message, notifyRet, completedTicks, restarts>>

\* sns.publish of the summary: the function returns to run_pending, or
\* ClientError -> log + notify + raise, which leaves run_pending and main.
PublishSummary ==
    /\ pc = "publish_summary"
    /\ \E ok \in BOOLEAN :
        IF ok
          THEN /\ jobs' = Reschedule("send_weekly_summary", WeekInterval)
               /\ pc' = "run_pending"
               /\ LocalsIdle
               /\ UNCHANGED <<error_message, notifyRet>>
          ELSE /\ CallNotify([kind |-> "weekly_summary_error"], "crashed")
               /\ LocalsUnchanged
               /\ UNCHANGED jobs
    /\ UNCHANGED <<config, files, now, topic_arn, topics, subscriptions, alarms,
                   setupCalls, completedTicks, restarts>>

(* ------------------------------ restart ------------------------------- *)

\* `if __name__ == '__main__': main()` once more, after main returned or died:
\* the process state is fresh, the files and the providers keep theirs.
Restart ==
    /\ pc \in {"returned", "crashed"}
    /\ restarts < MaxRestarts
    /\ restarts' = restarts + 1
    /\ pc' = "create_sns_topic"
    /\ topic_arn' = NoTopic
    /\ setupCalls' = <<>>
    /\ jobs' = <<>>
    /\ error_message' = NoMessage
    /\ notifyRet' = "none"
    /\ LocalsIdle
    /\ UNCHANGED <<config, files, now, topics, subscriptions, alarms, completedTicks>>

(* --------------------------- specification ---------------------------- *)

Next ==
    \/ CreateSnsTopic
    \/ SubscribeEmail
    \/ PutMetricAlarm
    \/ SetupExcept
    \/ Schedule
    \/ Sleep
    \/ StartRecordMetrics
    \/ GetMetricStatistics
    \/ HandleResponse
    \/ NextStat
    \/ WriteMetrics
    \/ ReadDataFile
    \/ Summarise
    \/ PublishSummary
    \/ NotifyStakeholders
    \/ Restart

Spec == Init /\ [][Next]_vars

(* ------------------ the weekly summary on drawn histories ------------- *)

\* The provider calls of a provisioning that succeeded, in call order.
ProvisioningCalls ==
    <<<<"create_topic">>, <<"subscribe">>>> \o
    [k \in 1..(2 * Len(instances) * Len(stats)) |->
        <<"put_metric_alarm",
          instances[((k - 1) \div (2 * Len(stats))) + 1],
          stats[(((k - 1) \div 2) % Len(stats)) + 1],
          IF k % 2 = 1 THEN "Amber" ELSE "Red">>]

\* The alarms CloudWatch holds once create_alarms returned.
ProvisionedAlarms ==
    {AlarmSpec(instances[i], stats[j], t, TopicArn) :
        i \in DOMAIN instances, j \in DOMAIN stats, t \in {"Amber", "Red"}}

\* Lines record_metrics can have written: the first instance holds a reading
\* or None for each stat, the second instance holds 30 or None throughout.
DigestRecords ==
    {[timestamp |-> 0,
      metrics |-> <<[instance_id |-> instances[1],
                     stats |-> [st \in Range(stats) |-> IF st = stats[1] THEN a ELSE b]],
                    [instance_id |-> instances[2],
                     stats |-> [st \in Range(stats) |-> c]]>>] :
        a \in {None, Some(10), Some(20), Some(30)},
        b \in {None, Some(20)},
        c \in {None, Some(30)}}

\* The loop of main at the instant the weekly job is due, after any history
\* of at most MaxLogLen completed ticks.
InitDigest ==
    /\ config = [metrics |-> "metrics.json", data_file |-> "metrics.json"]
    /\ \E n \in 0..MaxLogLen : \E f \in [1..n -> DigestRecords] :
        /\ files = [p \in Paths |->
                        IF p = config.data_file
                          THEN [exists |-> TRUE,
                                lines |-> [k \in 1..n |-> [f[k] EXCEPT !.timestamp = k]]]
                          ELSE NoFile]
        /\ now = n + 1
        /\ completedTicks = n
    /\ pc = "run_pending"
    /\ topic_arn = TopicArn
    /\ topics = {"ec2-monitoring"}
    /\ subscriptions = {<<TopicArn, "email">>}
    /\ alarms = ProvisionedAlarms
    /\ setupCalls = ProvisioningCalls
    /\ jobs = [j \in {"record_metrics", "send_weekly_summary"} |->
                  IF j = "record_metrics" THEN now + 1 ELSE now]
    /\ instance_idx = 1
    /\ stat_idx = 1
    /\ tier = "Amber"
    /\ metrics_data = NoRecord
    /\ instance_metrics = NoEntry
    /\ response = NoResponse
    /\ tick_log = <<>>
    /\ data = <<>>
    /\ weekly_summary = <<>>
    /\ summary_message = <<>>
    /\ error_message = NoMessage
    /\ notifyRet = "none"
    /\ restarts = 0

NextDigest ==
    \/ ReadDataFile
    \/ Summarise
    \/ PublishSummary
    \/ NotifyStakeholders

SpecDigest == InitDigest /\ [][NextDigest]_vars

(* ------------------------------ claims -------------------------------- *)

\* The metrics log: the lines of the file record_metrics appends to.
MetricsLog == files[config.metrics].lines

StatSet == Range(stats)

Pairs == {<<instances[i], stats[j]>> : i \in DOMAIN instances, j \in DOMAIN stats}

\* The value a record holds for (instance number i, stat st).
ValueIn(record, i, st) == record.metrics[i].stats[st]

\* One entry per configured instance, in order, each with exactly the
\* configured stats as keys.
UniformSchema(record) ==
    /\ Len(record.metrics) = Len(instances)
    /\ \A i \in DOMAIN instances :
        /\ record.metrics[i].instance_id = instances[i]
        /\ DOMAIN record.metrics[i].stats = StatSet

\* C1: a fatal tick (the metrics write failed, or the weekly publish failed)
\* is notified and then the scheduler loop goes on: after the notification
\* the thread is back in the loop of main, where the next due tick runs.
C1_FatalTickKeepsLoopRunning ==
    [][(pc = "notify_stakeholders"
          /\ error_message.kind \in {"write_metrics_error", "weekly_summary_error"})
        => pc' = "run_pending"]_vars

\* A run of main whose provisioning failed: in the handler of main, in its
\* notification, or returned.
SetupFailed ==
    \/ pc \in {"setup_except", "returned"}
    \/ pc = "notify_stakeholders" /\ notifyRet \in {"setup_except", "returned"}

\* A job is registered or running.
JobsActive ==
    \/ jobs # <<>>
    \/ pc \in {"run_pending", "get_metric_statistics", "handle_response", "next_stat",
               "write_metrics", "summarise", "publish_summary"}

\* C2: startup is all-or-nothing.  A run whose provisioning failed has no job
\* registered, and from its return nothing but a new start of the script
\* follows; a job is registered or running only after, in this run, the topic
\* was created, then the email subscribed, then every (instance, stat) alarm
\* pair registered, in that order.
C2_StartupAllOrNothing ==
    /\ [](SetupFailed => jobs = <<>>)
    /\ [](JobsActive => (setupCalls = ProvisioningCalls /\ topic_arn = TopicArn))
    /\ [][pc = "returned" => (pc' = "create_sns_topic" /\ jobs' = <<>>)]_vars

\* C2 witness: main returned after an alarm registration failed half way.
C2_Witness ==
    /\ pc = "returned"
    /\ Len(setupCalls) > 3
    /\ Len(setupCalls) < Len(ProvisioningCalls)
    /\ jobs = <<>>

\* C3: a ClientError on one (instance, stat) query never aborts the tick.
\* The failed pair gets None and an error notification naming it, the values
\* gathered so far stay, the tick goes on with the next pair, and when the
\* loops are over the record holds None for every failed pair and the
\* provider's answer for every other pair.
C3_QueryErrorKeepsTick ==
    /\ [][(pc = "handle_response" /\ response.kind = "ClientError")
            => /\ instance_metrics'.stats[stats[stat_idx]] = None
               /\ \A st \in DOMAIN instance_metrics.stats \ {stats[stat_idx]} :
                    instance_metrics'.stats[st] = instance_metrics.stats[st]
               /\ metrics_data' = metrics_data
               /\ pc' = "notify_stakeholders"
               /\ error_message' = [kind |-> "get_metric_statistics_error",
                                    stat |-> stats[stat_idx],
                                    instance_id |-> instances[instance_idx]]]_vars
    /\ [][(pc = "notify_stakeholders"
             /\ error_message.kind = "get_metric_statistics_error")
            => pc' = "next_stat"]_vars
    /\ [](pc = "write_metrics" =>
            /\ UniformSchema(metrics_data)
            /\ DOMAIN tick_log = Pairs
            /\ \A i \in DOMAIN instances : \A st \in StatSet :
                 LET answer == tick_log[<<instances[i], st>>]
                 IN ValueIn(metrics_data, i, st) =
                        IF answer.kind = "ClientError" \/ answer.Datapoints = <<>>
                          THEN None
                          ELSE Some(answer.Datapoints[1]))

\* C3 witness: the loops are over after one query failed and another one
\* returned a reading.
C3_Witness ==
    /\ pc = "write_metrics"
    /\ \E p \in Pairs : tick_log[p].kind = "ClientError"
    /\ \E i \in DOMAIN instances : \E st \in StatSet : ValueIn(metrics_data, i, st) # None

\* C4: every line of the metrics log, and every record about to be written,
\* has one entry per configured instance and in each entry one key per
\* configured stat; the value is None or the average the provider held for
\* that pair in that window, and for the record about to be written it is the
\* first data point of the answer, None when the answer had no data point.
C4_UniformRecords ==
    /\ \A k \in DOMAIN MetricsLog :
        /\ UniformSchema(MetricsLog[k])
        /\ \A i \in DOMAIN instances : \A st \in StatSet :
             \/ ValueIn(MetricsLog[k], i, st) = None
             \/ \E v \in DatapointAverages(instances[i], st, MetricsLog[k].timestamp) :
                  ValueIn(MetricsLog[k], i, st) = Some(v)
    /\ pc = "write_metrics" =>
        /\ UniformSchema(metrics_data)
        /\ \A i \in DOMAIN instances : \A st \in StatSet :
             LET answer == tick_log[<<instances[i], st>>]
             IN /\ (answer.kind = "ok" /\ answer.Datapoints # <<>>)
                      => ValueIn(metrics_data, i, st) = Some(answer.Datapoints[1])
                /\ (answer.kind = "ok" /\ answer.Datapoints = <<>>)
                      => ValueIn(metrics_data, i, st) = None

\* C4 witness: a line was appended in which one pair has a reading and
\* another pair, for which the provider had no data point, has None.
C4_Witness ==
    /\ Len(MetricsLog) >= 1
    /\ \E i \in DOMAIN instances : \E st \in StatSet : ValueIn(MetricsLog[1], i, st) # None
    /\ \E i \in DOMAIN instances : \E st \in StatSet : ValueIn(MetricsLog[1], i, st) = None

\* C5: the metrics log is append-only.  It holds exactly one line per
\* completed collection tick, its timestamps never decrease, and every step
\* of every operation either leaves it alone or appends one line, which is
\* the step that completes a tick.
C5_AppendOnlyLog ==
    /\ [](Len(MetricsLog) = completedTicks)
    /\ [](\A k \in 1..(Len(MetricsLog) - 1) :
            MetricsLog[k].timestamp <= MetricsLog[k + 1].timestamp)
    /\ [][\/ /\ MetricsLog' = MetricsLog
             /\ completedTicks' = completedTicks
          \/ /\ pc = "write_metrics"
             /\ pc' = "run_pending"
             /\ MetricsLog' = Append(MetricsLog, metrics_data)
             /\ completedTicks' = completedTicks + 1]_vars

\* C5 witness: two ticks completed, one of them after a restart.
C5_Witness ==
    /\ completedTicks = 2
    /\ Len(MetricsLog) = 2
    /\ restarts = 1

\* The answer "no data point" for the pair being handled.
HandlingEmptyAnswer ==
    /\ pc = "handle_response"
    /\ response = [kind |-> "ok", Datapoints |-> <<>>]

\* C6 as stated: on an answer without data point record_metrics records None
\* and also calls the notifier with a message naming the pair.
C6_NoDataPointIsNotified ==
    [][HandlingEmptyAnswer
        => /\ instance_metrics'.stats[stats[stat_idx]] = None
           /\ pc' = "notify_stakeholders"
           /\ error_message'.kind = "get_metric_statistics_error"
           /\ error_message'.stat = stats[stat_idx]
           /\ error_message'.instance_id = instances[instance_idx]]_vars

\* C6 amended: on an answer without data point record_metrics records None
\* and goes on to the next stat without calling the notifier; the notifier is
\* called, with a message naming the pair, exactly when the query raised.
C6_NoDataPointIsSilent ==
    /\ [][HandlingEmptyAnswer
            => /\ instance_metrics'.stats[stats[stat_idx]] = None
               /\ pc' = "next_stat"
               /\ error_message' = NoMessage]_vars
    /\ [][(pc = "handle_response" /\ pc' = "notify_stakeholders")
            => /\ response.kind = "ClientError"
               /\ error_message'.stat = stats[stat_idx]
               /\ error_message'.instance_id = instances[instance_idx]]_vars

\* C6 witness: an answer without data point was handled: None is recorded
\* and the thread is at the loop header, no notification pending.
C6_Witness ==
    /\ pc = "next_stat"
    /\ tick_log[<<instances[instance_idx], stats[stat_idx]>>]
            = [kind |-> "ok", Datapoints |-> <<>>]
    /\ instance_metrics.stats[stats[stat_idx]] = None
    /\ error_message = NoMessage

\* The alarm of the given name, with every argument the claim fixes.
HasAlarm(name, instance_id, st, threshold) ==
    \E a \in alarms :
        /\ a.AlarmName = name
        /\ a.MetricName = st
        /\ a.InstanceId = instance_id
        /\ a.ComparisonOperator = "GreaterThanThreshold"
        /\ a.Period = 60
        /\ a.EvaluationPeriods = 1
        /\ a.AlarmActions = <<topic_arn>>
        /\ a.Threshold = threshold

\* This run's provisioning succeeded.
Provisioned == setupCalls = ProvisioningCalls

\* C7 as stated: after a successful provisioning the alarms are, for every
\* (instance, stat), {instance}_{stat}_Warning_Alarm and
\* {instance}_{stat}_Critical_Alarm, and no other.
C7_WarningCriticalAlarms ==
    Provisioned =>
        /\ Cardinality(alarms) = 2 * Cardinality(Pairs)
        /\ \A p \in Pairs :
            /\ HasAlarm(p[1] \o "_" \o p[2] \o "_Warning_Alarm", p[1], p[2],
                        thresholds[p[2]].amber)
            /\ HasAlarm(p[1] \o "_" \o p[2] \o "_Critical_Alarm", p[1], p[2],
                        thresholds[p[2]].red)

\* C7 amended: after a successful provisioning the alarms are, for every
\* (instance, stat), exactly {instance}_{stat}_Amber_Alarm with the stat's
\* amber threshold and {instance}_{stat}_Red_Alarm with its red threshold,
\* each greater-than, period 60, one evaluation period, target the topic of
\* this run; this holds after the first provisioning and after every later
\* one, so a second provisioning leaves the same set of alarm names.
C7_AmberRedAlarms ==
    Provisioned =>
        /\ Cardinality(alarms) = 2 * Cardinality(Pairs)
        /\ {a.AlarmName : a \in alarms} =
              {"i-1_CPUUtilization_Amber_Alarm", "i-1_CPUUtilization_Red_Alarm",
               "i-1_NetworkIn_Amber_Alarm", "i-1_NetworkIn_Red_Alarm",
               "i-2_CPUUtilization_Amber_Alarm", "i-2_CPUUtilization_Red_Alarm",
               "i-2_NetworkIn_Amber_Alarm", "i-2_NetworkIn_Red_Alarm"}
        /\ \A p \in Pairs :
            /\ HasAlarm(p[1] \o "_" \o p[2] \o "_Amber_Alarm", p[1], p[2],
                        thresholds[p[2]].amber)
            /\ HasAlarm(p[1] \o "_" \o p[2] \o "_Red_Alarm", p[1], p[2],
                        thresholds[p[2]].red)

\* C7 witness: the second provisioning succeeded after a first run that had
\* provisioned too (it completed a tick), and no tick of the second run yet.
C7_Witness ==
    /\ restarts = 1
    /\ pc = "schedule"
    /\ Provisioned
    /\ completedTicks >= 1
    /\ HasAlarm("i-1_CPUUtilization_Amber_Alarm", "i-1", "CPUUtilization", 70)
    /\ HasAlarm("i-1_CPUUtilization_Red_Alarm", "i-1", "CPUUtilization", 90)

\* C8: the notifier is best-effort.  Whether its publish succeeded or raised,
\* notify_stakeholders returns to its caller at the place the caller chose,
\* which is never another call of the notifier; it leaves no notification
\* pending and changes nothing but the thread's position (and the locals of a
\* call that ends with it).
C8_NotifierBestEffort ==
    [][pc = "notify_stakeholders"
        => /\ pc' = notifyRet
           /\ pc' # "notify_stakeholders"
           /\ error_message' = NoMessage
           /\ UNCHANGED <<config, files, now, topic_arn, topics, subscriptions,
                          alarms, setupCalls, jobs, completedTicks, restarts>>
           /\ pc' = "next_stat" =>
                UNCHANGED <<instance_idx, stat_idx, metrics_data, instance_metrics,
                            tick_log>>]_vars

\* C8 witness: the collection tick goes on after the notification of a
\* failed query.
C8_Witness ==
    /\ pc = "next_stat"
    /\ tick_log[<<instances[instance_idx], stats[stat_idx]>>].kind = "ClientError"
    /\ error_message = NoMessage
    /\ notifyRet = "none"

\* The lines of the history whose first instance entry holds a value for st.
NonAbsent(st) == {k \in DOMAIN data : data[k].metrics[1].stats[st] # None}

RECURSIVE SumOver(_, _)
SumOver(K, st) ==
    IF K = {} THEN 0
    ELSE LET k == CHOOSE x \in K : TRUE
         IN data[k].metrics[1].stats[st][1] + SumOver(K \ {k}, st)

\* C9: for the history read and every configured stat, the digest has the
\* stat if and only if some line's first instance entry holds a value for
\* it; then its high is the largest and its low the smallest of those
\* values, and its average times their number is their sum.
C9_DigestIsMaxMinMean ==
    pc = "publish_summary" =>
        \A st \in StatSet :
            LET K == NonAbsent(st)
                blocks == {m \in Range(summary_message) : m.stat = st}
            IN /\ (st \in DOMAIN weekly_summary) <=> (K # {})
               /\ Cardinality(blocks) = IF K # {} THEN 1 ELSE 0
               /\ \A m \in blocks :
                    /\ \E k \in K : m.high = data[k].metrics[1].stats[st][1]
                    /\ \A k \in K : data[k].metrics[1].stats[st][1] <= m.high
                    /\ \E k \in K : m.low = data[k].metrics[1].stats[st][1]
                    /\ \A k \in K : m.low <= data[k].metrics[1].stats[st][1]
                    /\ m.average.den = Cardinality(K)
                    /\ m.average.num = SumOver(K, st)
                    /\ weekly_summary[st] =
                          [high |-> m.high, low |-> m.low, average |-> m.average]

\* C9 witness: the values 10, 20, 30 give high 30, low 10 and average 60/3,
\* and the other stat, absent in every line, is not in the digest.
C9_Witness ==
    /\ pc = "publish_summary"
    /\ Len(data) = 3
    /\ \A k \in 1..3 : data[k].metrics[1].stats["CPUUtilization"] = Some(10 * k)
    /\ \A k \in 1..3 : data[k].metrics[1].stats["NetworkIn"] = None
    /\ summary_message =
          <<[stat |-> "CPUUtilization", high |-> 30, low |-> 10,
             average |-> [num |-> 60, den |-> 3]]>>

\* C10: the weekly report computes its digest from the metrics log: while a
\* report runs, the lines it read are the lines the completed collection
\* ticks appended.
C10_ReportReadsMetricsLog ==
    pc \in {"summarise", "publish_summary"} => data = MetricsLog

====
